---- MODULE Spec2Model ----
(***************************************************************************)
(* Model of the energy-based cost sensors of dynamic_energy_cost           *)
(* (custom_components/dynamic_energy_cost/energy_based_sensors.py).        *)
(*                                                                         *)
(* One BaseEnergyCostSensor instance is modelled together with the parts   *)
(* of its host it talks to: the two feeds in the state machine             *)
(* (hass.states), the point-in-time timers it arms, the state it           *)
(* publishes and the snapshot the host hands back on the next start.       *)
(* The price feed is part of the state; the energy feed is read where a    *)
(* handler reads it: the reading is the handler's input.                   *)
(*                                                                         *)
(* Numbers are exact: energy readings and prices are integers in fixed     *)
(* units (the code works in binary floats; rounding is not modelled).      *)
(* Calendar time is counted in boundaries of the instance's interval and   *)
(* measured from now: a timer is held as the number of boundaries that     *)
(* still have to pass before it is due (0: due now).                       *)
(***************************************************************************)
EXTENDS Integers, Sequences, FiniteSets, Bags, TLC

\* ---------------------------------------------------------------- bounds
\* Energy readings range over 0..MaxEnergy.
MaxEnergy == 2
\* Prices range over -1..MaxPrice (spot prices do go negative).
MaxPrice == 1
\* Updates that would take the energy total above MaxTotal are not delivered.
MaxTotal == 3
\* Calendar years after 2023 a construction can fall in (2024 is a leap year).
MaxYearSpan == 1
\* Times of day run over 0..MaxTimeOfDay; 0 is midnight exactly.
MaxTimeOfDay == 1

\* ---------------------------------------------------------------- values
\* Python's None, and a number; one record shape so that both compare.
None == [k |-> "none", v |-> 0]

Num(n) == [k |-> "num", v |-> n]

STATE_UNKNOWN == [k |-> "unknown", v |-> 0]

STATE_UNAVAILABLE == [k |-> "unavailable", v |-> 0]

\* A state string that float() cannot parse.
TEXT_STATE == [k |-> "text", v |-> 0]

DEFAULT_CURRENCY == "EUR"

\* The class default of Entity._attr_unit_of_measurement (Python None).
UNIT_NONE == "None"

EnergyVals == 0..MaxEnergy

PriceVals == (-1)..MaxPrice

\* What hass.states.get(entity_id) can give: no entity (None), or a state
\* whose string is unknown, unavailable, unparsable text, or a number.
EnergyFeedStates == {None, STATE_UNKNOWN, STATE_UNAVAILABLE, TEXT_STATE} \cup {Num(n) : n \in EnergyVals}

PriceFeedStates == {None, STATE_UNKNOWN, STATE_UNAVAILABLE, TEXT_STATE} \cup {Num(n) : n \in PriceVals}

\* unit_of_measurement attribute of the price entity, as <<currency, per>>
\* for the string "currency/per"; <<>> when the attribute is absent.
PriceUnits == {<<>>, <<"USD", "kWh">>}

VARIABLES
    price_feed,                \* hass.states.get(self._price_sensor_id)
    state,                     \* self._state
    cumulative_energy_kwh,     \* self._cumulative_energy_kwh
    last_energy_reading,       \* self._last_energy_reading
    unit_of_measurement,       \* self._unit_of_measurement
    attr_unit_of_measurement,  \* self._attr_unit_of_measurement
    phase,                     \* "constructed" | "updated" | "added" | "failed" | "removed"
    timers,                    \* bag of pending _reset_meter timers: boundaries still to pass
    published,                 \* the state last written with async_write_ha_state
    stored,                    \* the snapshot async_get_last_state returns
    g,                         \* history of the current instance (for the properties)
    flow,                      \* the configuration flow: its last result
    user_input,                \* what async_step_user was called with last
    cal                        \* a construction seen in calendar time: now, interval, timer

\* The sensor instance and its host.
sensor_vars == <<price_feed, state, cumulative_energy_kwh,
                 last_energy_reading, unit_of_measurement, attr_unit_of_measurement,
                 phase, timers, published, stored, g>>

vars == <<price_feed, state, cumulative_energy_kwh,
          last_energy_reading, unit_of_measurement, attr_unit_of_measurement,
          phase, timers, published, stored, g, flow, user_input, cal>>

\* ------------------------------------------------------------- snapshots
NoSnapshot == [present |-> FALSE, state |-> STATE_UNKNOWN, cumulative_energy_kwh |-> 0,
               last_energy_reading |-> None, unit_of_measurement |-> UNIT_NONE]

\* The state string the host writes for a state value: None is written as
\* "unknown", a number as its decimal text.
StateString(s) == IF s = None THEN STATE_UNKNOWN ELSE Num(s.v)

\* The published state: the state property, extra_state_attributes and the
\* unit_of_measurement property.
Snapshot(st, cum, last, unit) ==
    [present |-> TRUE, state |-> StateString(st), cumulative_energy_kwh |-> cum,
     last_energy_reading |-> last, unit_of_measurement |-> unit]

\* The accrual fields of the instance, as one record.
Fields == [state |-> state, cum |-> cumulative_energy_kwh, last |-> last_energy_reading]

\* self._state with None counted as 0 (line 209).
Cost(s) == IF s = None THEN 0 ELSE s.v

\* ------------------------------------------------------------ async_update
\* The guard of lines 193-198: a feed is missing, unknown or unavailable.
Unavailable(f) == f = None \/ f = STATE_UNKNOWN \/ f = STATE_UNAVAILABLE

\* float(x.state) succeeds.
Parses(f) == f.k = "num"

\* The update gets past the availability check and both float() calls.
Processed(e, p) == ~Unavailable(e) /\ ~Unavailable(p) /\ Parses(e) /\ Parses(p)

\* Mutant: an unavailable price is taken as 0 and the update goes on.
UpdateResultPriceDefault(f, e, p) ==
    IF Unavailable(e) \/ ~Parses(e) THEN f
    ELSE LET price == IF Parses(p) THEN p.v ELSE 0 IN
         IF f.last # None /\ e.v >= f.last.v
         THEN [state |-> Num(Cost(f.state) + (e.v - f.last.v) * price),
               cum |-> f.cum + (e.v - f.last.v), last |-> Num(e.v)]
         ELSE [f EXCEPT !.last = Num(e.v)]

\* Mutant: the accrual branch does not move the last reading on.
UpdateResultStaleBase(f, e, p) ==
    IF ~Processed(e, p) THEN f
    ELSE IF f.last # None /\ e.v >= f.last.v
         THEN [state |-> Num(Cost(f.state) + (e.v - f.last.v) * p.v),
               cum |-> f.cum + (e.v - f.last.v), last |-> f.last]
         ELSE [f EXCEPT !.last = Num(e.v)]

\* Mutant: the increment is priced but the price is dropped (cost = energy).
UpdateResultNoPrice(f, e, p) ==
    IF ~Processed(e, p) THEN f
    ELSE IF f.last # None /\ e.v >= f.last.v
         THEN [state |-> Num(Cost(f.state) + (e.v - f.last.v)),
               cum |-> f.cum + (e.v - f.last.v), last |-> Num(e.v)]
         ELSE [f EXCEPT !.last = Num(e.v)]

\* Mutant: a rollback is taken as a full meter reset (the commented-out
\* line 222, with the energy total).
UpdateResultRollbackResets(f, e, p) ==
    IF ~Processed(e, p) THEN f
    ELSE IF f.last # None /\ e.v >= f.last.v
         THEN [state |-> Num(Cost(f.state) + (e.v - f.last.v) * p.v),
               cum |-> f.cum + (e.v - f.last.v), last |-> Num(e.v)]
         ELSE IF f.last # None
              THEN [state |-> Num(0), cum |-> 0, last |-> Num(e.v)]
              ELSE [f EXCEPT !.last = Num(e.v)]

\* Mutant: the increment is measured without the rollback test (abs-free
\* subtraction: a lower reading subtracts).
UpdateResultSubtracts(f, e, p) ==
    IF ~Processed(e, p) THEN f
    ELSE IF f.last # None
         THEN [state |-> Num(Cost(f.state) + (e.v - f.last.v) * p.v),
               cum |-> f.cum + (e.v - f.last.v), last |-> Num(e.v)]
         ELSE [f EXCEPT !.last = Num(e.v)]

\* Mutant: a missing last reading counts as 0 (the first reading is
\* accrued whole).
UpdateResultFirstFromZero(f, e, p) ==
    IF ~Processed(e, p) THEN f
    ELSE LET last == IF f.last = None THEN 0 ELSE f.last.v IN
         IF e.v >= last
         THEN [state |-> Num(Cost(f.state) + (e.v - last) * p.v),
               cum |-> f.cum + (e.v - last), last |-> Num(e.v)]
         ELSE [f EXCEPT !.last = Num(e.v)]

\* Mutant: a state that float() cannot parse is read as 0.0.
UpdateResultTextAsZero(f, e, p) ==
    IF Unavailable(e) \/ Unavailable(p) THEN f
    ELSE LET current_energy == IF Parses(e) THEN e.v ELSE 0
             price == IF Parses(p) THEN p.v ELSE 0
         IN  IF f.last # None /\ current_energy >= f.last.v
             THEN [state |-> Num(Cost(f.state) + (current_energy - f.last.v) * price),
                   cum |-> f.cum + (current_energy - f.last.v), last |-> Num(current_energy)]
             ELSE [f EXCEPT !.last = Num(current_energy)]

\* Mutant: an update skipped for want of a price still takes the reading as
\* the new base.
UpdateResultSkipAdvances(f, e, p) ==
    IF Unavailable(e) THEN f
    ELSE IF ~Parses(e) \/ (~Unavailable(p) /\ ~Parses(p)) THEN f
    ELSE IF Unavailable(p) THEN [f EXCEPT !.last = Num(e.v)]
    ELSE IF f.last # None /\ e.v >= f.last.v
         THEN [state |-> Num(Cost(f.state) + (e.v - f.last.v) * p.v),
               cum |-> f.cum + (e.v - f.last.v), last |-> Num(e.v)]
         ELSE [f EXCEPT !.last = Num(e.v)]

\* The accrual fields after async_update has run with the energy feed at e
\* and the price feed at p (lines 190-231).  An unavailable feed returns at
\* line 200; a float() that raises is caught at line 230 before anything
\* was assigned.
UpdateResult(f, e, p) ==
    IF Unavailable(e) \/ Unavailable(p) THEN f
    ELSE IF ~Parses(e) \/ ~Parses(p) THEN f
    ELSE LET current_energy == e.v
             price == p.v
         IN  IF f.last # None /\ current_energy >= f.last.v
             THEN LET energy_difference == current_energy - f.last.v
                      cost_increment == energy_difference * price
                  IN  [state |-> Num(Cost(f.state) + cost_increment),
                       cum |-> f.cum + energy_difference,
                       last |-> Num(current_energy)]
             ELSE [f EXCEPT !.last = Num(current_energy)]

\* ----------------------------------------------------- currency and resets
\* _get_currency (lines 136-149): the part of the price entity's unit before
\* the "/", or DEFAULT_CURRENCY when the entity or its unit is missing.
get_currency(price_entity, unit) ==
    IF price_entity # None /\ unit # <<>> THEN Head(unit) ELSE DEFAULT_CURRENCY

\* Mutant: the reset also forgets the last reading.
ResetResultClearsLast(f) == [state |-> Num(0), cum |-> 0, last |-> None]

\* Mutant: the reset zeroes the cost only.
ResetResultKeepsEnergy(f) == [f EXCEPT !.state = Num(0)]

\* The accrual fields after _reset_meter (lines 167-168) and after
\* async_reset (lines 86-87): both zero the cost and the energy total and
\* leave the last reading alone.
ResetResult(f) == [f EXCEPT !.state = Num(0), !.cum = 0]

\* _calculate_next_reset_time (lines 151-160), in boundaries from the
\* current time: next_reset is the first boundary after now.
calculate_next_reset_time == 1

\* Mutant: the timer is armed for the boundary that has just been missed
\* (it is due at once: a catch-up reset).
ScheduleMissedBoundary(tm) == tm (+) SetToBag({calculate_next_reset_time - 1})

\* _schedule_next_reset (lines 162-164): one more timer, never cancelled.
schedule_next_reset(tm) == tm (+) SetToBag({calculate_next_reset_time})

\* A boundary passes: every pending timer is one boundary nearer.
Nearer(tm) == [d \in {t - 1 : t \in BagToSet(tm)} |-> tm[d + 1]]

\* ---------------------------------------------------------------- history
\* g records what the current instance has been through:
\*   pure         it started without a snapshot and has not been reset
\*   n            updates processed since then (0, 1, or 2 for two or more)
\*   steady       so far every reading was >= the one before and every
\*                price equal to the first
\*   rolled       a reading was lower than the one before
\*   firstE, firstP   the first reading and price (while steady)
\*   first        the first reading processed (until a reading goes down)
\*   bridged      the update processed last accrued an increment and came
\*                straight after a skipped one (on a pure instance whose
\*                readings never went down)
\*   sumCost, sumEnergy   the sums of price * increment and of the increments
\*                over the consecutive readings that did not go down
\*   prev         the reading delivered last
\*   active, since   a boundary reset has fired since the last boundary and
\*                no manual reset since; the sum of price * increment over
\*                the updates processed since that first firing
\*   resetsAt     firings of _reset_meter since the last boundary passed
\*   resetsInRow  firings of _reset_meter in a row (0, 1, or 2 for more)
\*   skipped      the handler that ran last was an update that found a feed
\*                missing, unknown or unavailable
\*   malformed    the handler that ran last was an update that found both
\*                feeds available and one of them not a number
\*   early        no boundary has passed since the instance was constructed
\*   stale        a handler has run on the instance after its removal (the
\*                only thing recorded of a removed instance, which is
\*                followed up to the first such handler and no further)
GhostInit ==
    [pure |-> TRUE, n |-> 0, steady |-> TRUE, rolled |-> FALSE, firstE |-> 0, firstP |-> 0,
     first |-> 0, bridged |-> FALSE, sumCost |-> 0, sumEnergy |-> 0, prev |-> None, active |-> FALSE, since |-> 0,
     resetsAt |-> 0, resetsInRow |-> 0, skipped |-> FALSE, malformed |-> FALSE,
     early |-> TRUE, stale |-> FALSE]

GhostRemoved == [GhostInit EXCEPT !.pure = FALSE, !.early = FALSE]

Stale(gg) == [gg EXCEPT !.stale = TRUE]

Impure(gg) ==
    [gg EXCEPT !.pure = FALSE, !.n = 0, !.steady = TRUE, !.rolled = FALSE, !.firstE = 0,
               !.firstP = 0, !.first = 0, !.bridged = FALSE, !.sumCost = 0, !.sumEnergy = 0]

\* An update with reading E and price P was processed.
GhostUpdate(gg, E, P) ==
    LET up == gg.prev # None /\ E >= gg.prev.v
        inc == IF up THEN E - gg.prev.v ELSE 0
        steady == gg.steady /\ (gg.n = 0 \/ (up /\ P = gg.firstP))
        rolled == gg.rolled \/ (gg.n > 0 /\ ~up)
        seq == IF gg.pure
               THEN [gg EXCEPT !.n = IF gg.n < 2 THEN gg.n + 1 ELSE 2,
                               !.steady = steady,
                               !.rolled = rolled,
                               !.first = IF rolled THEN 0 ELSE IF gg.n = 0 THEN E ELSE gg.first,
                               !.bridged = gg.skipped /\ ~rolled /\ inc > 0,
                               !.firstE = IF ~steady THEN 0 ELSE IF gg.n = 0 THEN E ELSE gg.firstE,
                               !.firstP = IF ~steady THEN 0 ELSE IF gg.n = 0 THEN P ELSE gg.firstP,
                               !.sumCost = gg.sumCost + inc * P,
                               !.sumEnergy = gg.sumEnergy + inc]
               ELSE gg
    IN  [seq EXCEPT !.prev = Num(E), !.skipped = FALSE, !.malformed = FALSE,
                    !.since = IF gg.active THEN gg.since + inc * P ELSE 0,
                    !.resetsInRow = 0]

\* _reset_meter ran: its first firing after a boundary starts the interval.
GhostBoundaryReset(gg) ==
    [Impure(gg) EXCEPT !.skipped = FALSE, !.malformed = FALSE,
                       !.active = IF gg.resetsAt = 0 THEN TRUE ELSE gg.active,
                       !.since = IF gg.resetsAt = 0 THEN 0 ELSE gg.since,
                       !.resetsAt = gg.resetsAt + 1,
                       !.resetsInRow = IF gg.resetsInRow < 2 THEN gg.resetsInRow + 1 ELSE 2]

\* --------------------------------------------------------------- calendar
\* A local time, as homeassistant.util.dt.now() gives it: a date and a time
\* of day (0: midnight exactly).
Years == 2023..(2023 + MaxYearSpan)

TimesOfDay == 0..MaxTimeOfDay

IsLeap(y) == (y % 4 = 0 /\ y % 100 # 0) \/ y % 400 = 0

DaysInMonth(y, m) ==
    IF m = 2 THEN (IF IsLeap(y) THEN 29 ELSE 28)
    ELSE IF m \in {4, 6, 9, 11} THEN 30 ELSE 31

\* The times now() can return at a construction.
Times ==
    {t \in [year : Years, month : 1..12, day : 1..31, tod : TimesOfDay] :
        t.day <= DaysInMonth(t.year, t.month)}

NoTime == [year |-> 0, month |-> 0, day |-> 0, tod |-> 0]

\* t + timedelta(days=1), and t + timedelta(days=n).
NextDay(t) ==
    IF t.day < DaysInMonth(t.year, t.month) THEN [t EXCEPT !.day = t.day + 1]
    ELSE IF t.month < 12 THEN [t EXCEPT !.month = t.month + 1, !.day = 1]
    ELSE [t EXCEPT !.year = t.year + 1, !.month = 1, !.day = 1]

RECURSIVE AddDays(_, _)
AddDays(t, n) == IF n = 0 THEN t ELSE AddDays(NextDay(t), n - 1)

\* t.replace(hour=0, minute=0, second=0, microsecond=0)
Midnight(t) == [t EXCEPT !.tod = 0]

Intervals == {"daily", "monthly", "yearly", "weekly"}

\* What _calculate_next_reset_time gives when no branch assigns next_reset:
\* "return next_reset" raises UnboundLocalError.
UnboundLocalError == [year |-> -1, month |-> 0, day |-> 0, tod |-> 0]

\* Mutant: the month is stepped over with 30 days.
CalculateNextResetTimeThirtyDays(current_time, interval) ==
    IF interval = "daily" THEN AddDays(Midnight(current_time), 1)
    ELSE IF interval = "monthly"
    THEN Midnight([AddDays([current_time EXCEPT !.day = 1], 30) EXCEPT !.day = 1])
    ELSE IF interval = "yearly"
    THEN [year |-> current_time.year + 1, month |-> 1, day |-> 1, tod |-> 0]
    ELSE UnboundLocalError

\* Mutant: an interval that is none of the three is taken as daily.
CalculateNextResetTimeDefaultsDaily(current_time, interval) ==
    IF interval = "monthly"
    THEN Midnight([AddDays([current_time EXCEPT !.day = 1], 32) EXCEPT !.day = 1])
    ELSE IF interval = "yearly"
    THEN [year |-> current_time.year + 1, month |-> 1, day |-> 1, tod |-> 0]
    ELSE AddDays(Midnight(current_time), 1)

\* _calculate_next_reset_time (lines 151-160) at current_time = now().
CalculateNextResetTime(current_time, interval) ==
    IF interval = "daily"
    THEN AddDays(Midnight(current_time), 1)
    ELSE IF interval = "monthly"
    THEN LET next_month == [AddDays([current_time EXCEPT !.day = 1], 32) EXCEPT !.day = 1]
         IN  Midnight(next_month)
    ELSE IF interval = "yearly"
    THEN [year |-> current_time.year + 1, month |-> 1, day |-> 1, tod |-> 0]
    ELSE UnboundLocalError

\* No construction is being looked at.
CalIdle == [now |-> NoTime, interval |-> "", outcome |-> "none", next_reset |-> NoTime]

\* ------------------------------------------------------ configuration flow
\* config_flow.py, DynamicEnergyCostConfigFlow.async_step_user.  A field of
\* user_input is a string, or ABSENT when the key is not in the dict.
ABSENT == "<absent>"

FieldInputs == {ABSENT, "", "not an entity id", "sensor.one", "sensor.two"}

UserInputs ==
    [electricity_price_sensor : FieldInputs, power_sensor : FieldInputs, energy_sensor : FieldInputs]

\* user_input.get(key) is truthy: the key is there and its string not empty.
Provided(x) == x # ABSENT /\ x # ""

\* cv.entity_id(x) returns (it raises vol.Invalid for anything that is not
\* of the form domain.object_id).
ValidEntityId(x) == x \in {"sensor.one", "sensor.two"}

\* The flow as started: async_step_user(None) has shown the empty form
\* (lines 32, 68-99).
FlowStarted == [step |-> "form", errors |-> {}, data |-> <<>>]

FlowForm(errors) == [step |-> "form", errors |-> errors, data |-> <<>>]

\* Mutant: the check for both sensors (lines 50-54) is left out.
StepUserResultAllowsBoth(input) ==
    IF input.electricity_price_sensor = ABSENT
    THEN [step |-> "raised", errors |-> {}, data |-> <<>>]
    ELSE IF \/ ~ValidEntityId(input.electricity_price_sensor)
            \/ Provided(input.power_sensor) /\ ~ValidEntityId(input.power_sensor)
            \/ Provided(input.energy_sensor) /\ ~ValidEntityId(input.energy_sensor)
            \/ ~Provided(input.power_sensor) /\ ~Provided(input.energy_sensor)
    THEN FlowForm({"invalid_entity"})
    ELSE [step |-> "entry", errors |-> {}, data |-> input]

\* The result of async_step_user(user_input) for a user_input that is not
\* None (lines 32-66, 90).  user_input["electricity_price_sensor"] raises
\* KeyError when the key is missing, which line 64 does not catch; every
\* vol.Invalid ends in the form shown again with errors["base"].  The
\* entry's data are the three fields as given (lines 57-61).
StepUserResult(input) ==
    IF input.electricity_price_sensor = ABSENT
    THEN [step |-> "raised", errors |-> {}, data |-> <<>>]
    ELSE IF ~ValidEntityId(input.electricity_price_sensor)
    THEN FlowForm({"invalid_entity"})
    ELSE IF Provided(input.power_sensor) /\ ~ValidEntityId(input.power_sensor)
    THEN FlowForm({"invalid_entity"})
    ELSE IF Provided(input.energy_sensor) /\ ~ValidEntityId(input.energy_sensor)
    THEN FlowForm({"invalid_entity"})
    ELSE IF ~Provided(input.power_sensor) /\ ~Provided(input.energy_sensor)
    THEN FlowForm({"invalid_entity"})
    ELSE IF Provided(input.power_sensor) /\ Provided(input.energy_sensor)
    THEN FlowForm({"invalid_entity"})
    ELSE [step |-> "entry", errors |-> {}, data |-> input]

\* ------------------------------------------------------------------- Init
\* The state after __init__ (lines 36-55): no cost, no reading, the default
\* currency, and one reset timer already armed (line 55).
Init ==
    /\ price_feed \in PriceFeedStates
    /\ state = None
    /\ cumulative_energy_kwh = 0
    /\ last_energy_reading = None
    /\ unit_of_measurement = DEFAULT_CURRENCY
    /\ attr_unit_of_measurement = UNIT_NONE
    /\ phase = "constructed"
    /\ timers = schedule_next_reset(EmptyBag)
    /\ published = NoSnapshot
    /\ stored = NoSnapshot
    /\ g = GhostInit
    /\ flow = FlowStarted
    /\ user_input = None
    /\ cal = CalIdle

\* ---------------------------------------------------------------- actions
SetFields(f) ==
    /\ state' = f.state
    /\ cumulative_energy_kwh' = f.cum
    /\ last_energy_reading' = f.last

\* What async_update does to the instance, the published state and the
\* history when hass.states.get gives e for the energy feed.  Line 228
\* publishes once the entity has been added; before that the write raises
\* and line 230 swallows it.
RunUpdate(e) ==
    /\ UpdateResult(Fields, e, price_feed).cum <= MaxTotal
    /\ SetFields(UpdateResult(Fields, e, price_feed))
    /\ g' = IF phase = "removed" THEN Stale(g)
            ELSE IF Processed(e, price_feed) THEN GhostUpdate(g, e.v, price_feed.v)
            ELSE [g EXCEPT !.skipped = Unavailable(e) \/ Unavailable(price_feed),
                           !.malformed = ~Unavailable(e) /\ ~Unavailable(price_feed),
                           !.bridged = FALSE]
    /\ published' = IF Processed(e, price_feed) /\ phase = "added"
                    THEN Snapshot(state', cumulative_energy_kwh', last_energy_reading', unit_of_measurement)
                    ELSE published
    /\ UNCHANGED <<price_feed, unit_of_measurement, attr_unit_of_measurement, timers, stored, flow, user_input, cal>>

\* async_update called by the host, reading e from the energy feed: once
\* before the entity is added (async_add_entities(sensors, True), line 258,
\* and sensor.py line 66) and whenever the host polls the added entity.
async_update(e) ==
    /\ phase \in {"constructed", "added"}
    /\ phase' = IF phase = "constructed" THEN "updated" ELSE phase
    /\ RunUpdate(e)

\* The energy feed changes to v and the subscription of line 133 runs
\* _async_update_energy_price_event (lines 179-185): it returns on a
\* missing, unknown or unavailable new state and else runs async_update.
\* The subscription outlives the entity's removal.
async_update_energy_price_event(v) ==
    /\ phase \in {"added", "removed"}
    /\ phase = "removed" => ~g.stale
    /\ IF v = None \/ v = STATE_UNKNOWN \/ v = STATE_UNAVAILABLE
       THEN /\ g' = IF phase = "removed" THEN Stale(g) ELSE [g EXCEPT !.skipped = TRUE, !.malformed = FALSE, !.bridged = FALSE]
            /\ UNCHANGED <<price_feed, state, cumulative_energy_kwh, last_energy_reading,
                           unit_of_measurement, attr_unit_of_measurement, phase, timers,
                           published, stored, flow, user_input, cal>>
       ELSE phase' = phase /\ RunUpdate(v)

\* Mutant: the price feed is tracked as well, and its change runs
\* async_update with the energy feed at some e.
PriceStateChangedRunsUpdate(v) ==
    /\ v # price_feed
    /\ price_feed' = v
    /\ \E e \in EnergyFeedStates :
          /\ UpdateResult(Fields, e, v).cum <= MaxTotal
          /\ SetFields(UpdateResult(Fields, e, v))
    /\ UNCHANGED <<unit_of_measurement, attr_unit_of_measurement, phase, timers, published,
                   stored, g, flow, user_input, cal>>

\* The price feed changes to v: no handler of the instance listens to it.
PriceStateChanged(v) ==
    /\ v # price_feed
    /\ price_feed' = v
    /\ UNCHANGED <<state, cumulative_energy_kwh, last_energy_reading, unit_of_measurement,
                   attr_unit_of_measurement, phase, timers, published, stored, g, flow, user_input, cal>>

\* The snapshot is one the restore branch of line 125 takes.
Hydrates(snap) == snap.present /\ snap.state # STATE_UNKNOWN /\ snap.state # STATE_UNAVAILABLE

\* Mutant: the restore branch assigns the unit to the field the
\* unit_of_measurement property reads.
RestoredUnitAssigned(unit, attr_unit, snap) == [unit |-> snap.unit_of_measurement, attr_unit |-> attr_unit]

\* Line 129: the restored unit goes to _attr_unit_of_measurement, while the
\* unit_of_measurement property (lines 107-109) reads _unit_of_measurement.
RestoredUnit(unit, attr_unit, snap) == [unit |-> unit, attr_unit |-> snap.unit_of_measurement]

\* async_added_to_hass (lines 120-134), the price entity's unit attribute
\* being u.  With a snapshot whose state is a number the fields are read
\* back with float(); float(None) on a missing last_energy_reading raises
\* at line 127, after line 126 has assigned _state, and the rest of the
\* method does not run.  Without such a snapshot the currency is read from
\* the price entity.  Then the state is written, the energy feed
\* subscribed and a second reset timer armed (line 134).  The snapshot is
\* read once.
async_added_to_hass(u) ==
    /\ phase = "updated"
    /\ stored' = NoSnapshot
    /\ IF Hydrates(stored)
       THEN IF stored.last_energy_reading = None
            THEN /\ state' = Num(stored.state.v)
                 /\ phase' = "failed"
                 /\ g' = Impure(g)
                 /\ UNCHANGED <<cumulative_energy_kwh, last_energy_reading, unit_of_measurement,
                                attr_unit_of_measurement, timers, published>>
            ELSE /\ state' = Num(stored.state.v)
                 /\ last_energy_reading' = Num(stored.last_energy_reading.v)
                 /\ cumulative_energy_kwh' = stored.cumulative_energy_kwh
                 /\ unit_of_measurement' = RestoredUnit(unit_of_measurement, attr_unit_of_measurement, stored).unit
                 /\ attr_unit_of_measurement' = RestoredUnit(unit_of_measurement, attr_unit_of_measurement, stored).attr_unit
                 /\ phase' = "added"
                 /\ g' = [Impure(g) EXCEPT !.prev = last_energy_reading', !.malformed = FALSE]
                 /\ published' = Snapshot(state', cumulative_energy_kwh', last_energy_reading', unit_of_measurement')
                 /\ timers' = schedule_next_reset(timers)
       ELSE /\ unit_of_measurement' = get_currency(price_feed, u)
            /\ phase' = "added"
            /\ published' = Snapshot(state, cumulative_energy_kwh, last_energy_reading, unit_of_measurement')
            /\ timers' = schedule_next_reset(timers)
            /\ UNCHANGED <<state, cumulative_energy_kwh, last_energy_reading, attr_unit_of_measurement, g>>
    /\ UNCHANGED <<price_feed, flow, user_input, cal>>

\* A timer that is due (t = 0) fires: _reset_meter (lines 166-170) zeroes
\* the totals, writes the state and arms the next timer.  The timers
\* outlive the entity's removal; the host writes no state for a removed
\* entity.
reset_meter(t) ==
    /\ BagIn(t, timers)
    /\ t = 0
    /\ phase \in {"added", "failed", "removed"}
    /\ phase = "removed" => ~g.stale
    /\ SetFields(ResetResult(Fields))
    /\ published' = IF phase = "removed" THEN published
                    ELSE Snapshot(state', cumulative_energy_kwh', last_energy_reading', unit_of_measurement)
    /\ timers' = schedule_next_reset(timers (-) SetToBag({t}))
    /\ g' = IF phase = "removed" THEN Stale(g) ELSE GhostBoundaryReset(g)
    /\ UNCHANGED <<price_feed, unit_of_measurement, attr_unit_of_measurement, phase, stored, flow, user_input, cal>>

\* The reset_cost service (sensor.py lines 26-34) calls async_reset
\* (lines 82-88) on the added entity.
async_reset ==
    /\ phase = "added"
    /\ SetFields(ResetResult(Fields))
    /\ published' = Snapshot(state', cumulative_energy_kwh', last_energy_reading', unit_of_measurement)
    /\ g' = [Impure(g) EXCEPT !.active = FALSE, !.since = 0, !.resetsInRow = 0, !.skipped = FALSE,
                              !.malformed = FALSE]
    /\ UNCHANGED <<price_feed, unit_of_measurement, attr_unit_of_measurement, phase, timers, stored, flow, user_input, cal>>

\* The config entry is unloaded (__init__.py lines 64-76) or the entity
\* removed: the host takes the entity off its platform and keeps the state
\* it wrote last for the next start.  The class has no
\* async_will_remove_from_hass and registers nothing with async_on_remove;
\* the unsubscribe callbacks that async_track_state_change_event (line 133)
\* and async_track_point_in_time (line 164) return are dropped: the
\* subscription and the timers stay.
async_remove ==
    /\ phase = "added"
    /\ phase' = "removed"
    /\ g' = GhostRemoved
    /\ UNCHANGED <<price_feed, state, cumulative_energy_kwh, last_energy_reading,
                   unit_of_measurement, attr_unit_of_measurement, timers, published, stored, flow, user_input, cal>>

\* A boundary of the interval passes.  The timers due at the previous one
\* have fired by then, and startup (from __init__ to the end of
\* async_added_to_hass) does not straddle a boundary.
BoundaryPasses ==
    /\ phase \in {"added", "failed", "removed"}
    /\ \A t \in BagToSet(timers) : t > 0
    /\ timers' = Nearer(timers)
    /\ g' = IF phase = "removed" THEN g ELSE [g EXCEPT !.active = FALSE, !.since = 0, !.resetsAt = 0, !.early = FALSE]
    /\ UNCHANGED <<price_feed, state, cumulative_energy_kwh, last_energy_reading,
                   unit_of_measurement, attr_unit_of_measurement, phase, published, stored, flow, user_input, cal>>

\* The host restarts: the instance and its timers are gone, the state last
\* written is what the next instance is given to restore, and __init__
\* (lines 36-55) runs again.
Restart ==
    /\ phase \in {"added", "failed", "removed"}
    /\ stored' = published
    /\ published' = NoSnapshot
    /\ state' = None
    /\ cumulative_energy_kwh' = 0
    /\ last_energy_reading' = None
    /\ unit_of_measurement' = DEFAULT_CURRENCY
    /\ attr_unit_of_measurement' = UNIT_NONE
    /\ phase' = "constructed"
    /\ timers' = schedule_next_reset(EmptyBag)
    /\ g' = GhostInit
    /\ UNCHANGED <<price_feed, flow, user_input, cal>>

Next ==
    \/ \E e \in EnergyFeedStates : async_update(e)
    \/ \E v \in EnergyFeedStates : async_update_energy_price_event(v)
    \/ \E v \in PriceFeedStates : PriceStateChanged(v)
    \/ \E u \in PriceUnits : async_added_to_hass(u)
    \/ \E t \in BagToSet(timers) : reset_meter(t)
    \/ async_reset
    \/ async_remove
    \/ BoundaryPasses
    \/ Restart

Spec == Init /\ [][Next]_vars

\* The configuration flow on its own: the user submits the form, again
\* after an error, until an entry is created (or the step raises).
InitFlow ==
    /\ Init
    /\ price_feed = None

async_step_user(input) ==
    /\ flow.step = "form"
    /\ user_input' = input
    /\ flow' = StepUserResult(input)
    /\ UNCHANGED <<sensor_vars, cal>>

NextFlow == \E input \in UserInputs : async_step_user(input)

SpecFlow == InitFlow /\ [][NextFlow]_vars

\* A construction in calendar time.  BaseEnergyCostSensor(interval) is
\* __init__ (lines 36-55) called at cal.now: line 42 keeps the interval and
\* line 55 arms the timer at the time _calculate_next_reset_time returns,
\* or the UnboundLocalError leaves __init__ and there is no instance.
InitCalendar ==
    /\ Init
    /\ price_feed = None

\* The host's clock at the construction.
ClockIs(t) ==
    /\ cal = CalIdle
    /\ cal' = [cal EXCEPT !.now = t]
    /\ UNCHANGED <<sensor_vars, flow, user_input>>

BaseEnergyCostSensor(interval) ==
    /\ cal.now # NoTime
    /\ cal.outcome = "none"
    /\ LET next_reset == CalculateNextResetTime(cal.now, interval)
       IN  cal' = IF next_reset = UnboundLocalError
                  THEN [cal EXCEPT !.interval = interval, !.outcome = "raised"]
                  ELSE [cal EXCEPT !.interval = interval, !.outcome = "armed",
                                   !.next_reset = next_reset]
    /\ UNCHANGED <<sensor_vars, flow, user_input>>

\* The timer fires at its time and _reset_meter arms the next one
\* (line 170), now() being the boundary itself.
ResetTimerFires ==
    /\ cal.outcome = "armed"
    /\ cal.next_reset.year \in Years
    /\ cal' = [cal EXCEPT !.now = cal.next_reset,
                          !.next_reset = CalculateNextResetTime(cal.next_reset, cal.interval)]
    /\ UNCHANGED <<sensor_vars, flow, user_input>>

NextCalendar ==
    \/ \E t \in Times : ClockIs(t)
    \/ \E interval \in Intervals : BaseEnergyCostSensor(interval)
    \/ ResetTimerFires

SpecCalendar == InitCalendar /\ [][NextCalendar]_vars

\* ------------------------------------------------------------- properties
\* An update handler runs with the energy feed at e: async_update called by
\* the host, or the energy feed's change event.  (No handler touches the
\* price feed or the timers; said first, it tells most other steps apart.)
UpdateStep(e) ==
    /\ price_feed' = price_feed
    /\ timers' = timers
    /\ async_update(e) \/ async_update_energy_price_event(e)

\* C1: accrual step.  When an update runs with both feeds available and
\* numeric, the last reading set to L and the reading E >= L, then afterwards
\* the cost (None counted as 0 before) is the old cost + (E - L) * P for the
\* price P read in the call, the energy total is the old one + (E - L), and
\* the last reading is E; whatever the instance went through before.
AccrualStep ==
    [][\A e \in EnergyFeedStates :
        (/\ Processed(e, price_feed)
         /\ last_energy_reading # None
         /\ e.v >= last_energy_reading.v
         /\ UpdateStep(e))
        => /\ state' = Num(Cost(state) + (e.v - last_energy_reading.v) * price_feed.v)
           /\ cumulative_energy_kwh' = cumulative_energy_kwh + (e.v - last_energy_reading.v)
           /\ last_energy_reading' = Num(e.v)]_vars

\* Two units of energy were accrued at the negative price by a fresh instance.
AccrualStepWitness ==
    /\ g.pure /\ g.n = 2 /\ g.sumEnergy = 2
    /\ state = Num(-2)
    /\ cumulative_energy_kwh = 2
    /\ last_energy_reading = Num(2)

\* C2: rollback.  An update whose reading E is below the last reading (both
\* feeds available) leaves the cost and the energy total as they were and
\* sets the last reading to E.
RollbackProperty ==
    [][\A e \in EnergyFeedStates :
        (/\ Processed(e, price_feed)
         /\ last_energy_reading # None
         /\ e.v < last_energy_reading.v
         /\ UpdateStep(e))
        => /\ state' = state
           /\ cumulative_energy_kwh' = cumulative_energy_kwh
           /\ last_energy_reading' = Num(e.v)]_vars

\* A reading went down to 0 after energy was accrued, and the totals stand.
RollbackWitness ==
    /\ g.pure /\ g.rolled /\ g.sumEnergy > 0
    /\ Cost(state) # 0
    /\ cumulative_energy_kwh = g.sumEnergy
    /\ last_energy_reading = Num(0)

\* C3: unavailability.  An energy event or an async_update call that finds
\* the energy feed or the price feed missing, unknown or unavailable leaves
\* the cost, the energy total, the last reading and the unit label as they
\* were.
UnavailabilityProperty ==
    [][\A e \in EnergyFeedStates :
        ((Unavailable(e) \/ Unavailable(price_feed)) /\ UpdateStep(e))
        => UNCHANGED <<state, cumulative_energy_kwh, last_energy_reading,
                       unit_of_measurement, attr_unit_of_measurement>>]_vars

\* An update was skipped, the price feed being down, with totals to lose.
UnavailabilityWitness ==
    /\ g.skipped
    /\ Unavailable(price_feed)
    /\ Cost(state) # 0
    /\ cumulative_energy_kwh > 0
    /\ last_energy_reading # None

\* C4, as claimed: after readings e1 <= ... <= en (n >= 1) delivered to a
\* fresh instance at a constant price p, with no reset, the cost is
\* p * (en - e1) and the energy total en - e1; for n = 1 the cost is 0.
MonotoneReadings ==
    (g.pure /\ g.n >= 1 /\ g.steady)
    => /\ state = Num(g.firstP * (g.prev.v - g.firstE))
       /\ cumulative_energy_kwh = g.prev.v - g.firstE

\* C4, amended: the same, the cost being _state with None counted as 0:
\* after the first reading _state is still None, from the second on it is
\* the number p * (en - e1).
MonotoneReadingsAmended ==
    (g.pure /\ g.n >= 1 /\ g.steady)
    => /\ Cost(state) = g.firstP * (g.prev.v - g.firstE)
       /\ cumulative_energy_kwh = g.prev.v - g.firstE
       /\ (state = None) <=> (g.n = 1)

\* Readings from 0 up to 2 at the constant price 1.
MonotoneReadingsWitness ==
    /\ g.pure /\ g.n = 2 /\ g.steady
    /\ g.firstE = 0 /\ g.firstP = 1 /\ g.prev = Num(2)
    /\ state = Num(2)
    /\ cumulative_energy_kwh = 2

\* C5, as claimed: for readings that may go down, delivered to a fresh
\* instance with no reset, the cost is the sum of price_i * (e_i - e_{i-1})
\* over the consecutive pairs with e_i >= e_{i-1} and the energy total the
\* sum of those differences.
RollbackSum ==
    (g.pure /\ g.n >= 1)
    => /\ state = Num(g.sumCost)
       /\ cumulative_energy_kwh = g.sumEnergy

\* C5, amended: the same, the cost being _state with None counted as 0
\* (_state stays None until the first pair that does not go down).
RollbackSumAmended ==
    (g.pure /\ g.n >= 1)
    => /\ Cost(state) = g.sumCost
       /\ cumulative_energy_kwh = g.sumEnergy

\* MaxTotal units accrued at price 1 around a rollback, the last reading
\* being MaxEnergy: the shape of 100, 100, 102.5, 101, 105 (as 0, 0, 2, 1, 2,
\* and as 0, 0, 2, 1, 3 with the bounds one higher).
RollbackSumWitness ==
    /\ g.pure /\ g.rolled /\ g.sumEnergy = MaxTotal
    /\ state = Num(MaxTotal)
    /\ cumulative_energy_kwh = MaxTotal
    /\ last_energy_reading = Num(MaxEnergy)

\* C6: reset idempotence.  A boundary firing sets the cost and the energy
\* total to 0 and leaves the last reading alone; a firing that follows
\* another with no update in between leaves the fields as the first left
\* them.
ResetIdempotence ==
    [][\A t \in BagToSet(timers) :
        reset_meter(t)
        => /\ state' = Num(0)
           /\ cumulative_energy_kwh' = 0
           /\ last_energy_reading' = last_energy_reading
           /\ unit_of_measurement' = unit_of_measurement
           /\ g.resetsInRow >= 1
              => <<state', cumulative_energy_kwh', last_energy_reading'>>
                 = <<state, cumulative_energy_kwh, last_energy_reading>>]_vars

\* Two firings in a row, a reading having been seen before.
ResetIdempotenceWitness ==
    /\ g.resetsInRow = 2
    /\ state = Num(0)
    /\ cumulative_energy_kwh = 0
    /\ last_energy_reading # None

\* C7: exactly one reset per boundary.  For an instance that went through
\* __init__ and async_added_to_hass, _reset_meter runs once for each
\* boundary that passes: never a second time before the next boundary.
OneResetPerBoundary == phase = "added" => g.resetsAt <= 1

\* C8: boundary ordering.  Once the boundary's reset has fired, every update
\* processed before the next boundary stays counted: the cost is the sum of
\* price * increment over the updates processed since the firing (no manual
\* reset in between).
BoundaryOrdering == (phase = "added" /\ g.active) => Cost(state) = g.since

\* C9: restore round trip.  Restoring the snapshot an instance published
\* (a numeric state and all attributes present) gives the fresh instance
\* the snapshot's cost, energy total, last reading and unit label, the
\* label being what the unit_of_measurement property returns.
RestoreRoundTrip ==
    [][\A u \in PriceUnits :
        (async_added_to_hass(u) /\ Hydrates(stored) /\ stored.last_energy_reading # None)
        => /\ state' = stored.state
           /\ cumulative_energy_kwh' = stored.cumulative_energy_kwh
           /\ last_energy_reading' = stored.last_energy_reading
           /\ unit_of_measurement' = stored.unit_of_measurement]_vars

\* C10: within an interval the cost never decreases: no update, whatever
\* number the price feed reports, leaves the cost lower than it found it.
CostNeverDecreases ==
    [][\A e \in EnergyFeedStates : UpdateStep(e) => Cost(state') >= Cost(state)]_vars

\* C11: the energy total is never negative, whatever updates, rollbacks,
\* skipped updates, boundary firings and manual resets the instance (fresh
\* or restored) goes through; and no update takes anything off the energy
\* total, nor does a lower reading take anything off the cost.
EnergyTotalNeverNegative ==
    /\ [](cumulative_energy_kwh >= 0)
    /\ [][\A e \in EnergyFeedStates :
            UpdateStep(e)
            => /\ cumulative_energy_kwh' >= cumulative_energy_kwh
               /\ (Processed(e, price_feed) /\ last_energy_reading # None
                   /\ e.v < last_energy_reading.v)
                  => Cost(state') = Cost(state)]_vars

\* The energy total stands at MaxTotal after two rollbacks to reading 0.
EnergyTotalNeverNegativeWitness ==
    /\ g.pure /\ g.rolled
    /\ cumulative_energy_kwh = MaxTotal
    /\ last_energy_reading = Num(0)
    /\ g.sumEnergy = MaxTotal

\* C12: after the instance is torn down none of its handlers runs again: no
\* pending reset timer fires _reset_meter on it (and none is re-armed), and
\* no change of the energy feed runs its update handler.
NoHandlerAfterTeardown ==
    [][phase = "removed"
       => /\ \A t \in BagToSet(timers) : ~reset_meter(t)
          /\ \A v \in EnergyFeedStates : ~async_update_energy_price_event(v)]_vars

\* C13: the manual reset (service reset_cost -> async_reset) does to the
\* accrual fields what the reset step of a boundary firing does: from any
\* state the cost and the energy total become 0, the last reading stays and
\* the state is published; and it neither cancels nor adds a timer.
ManualResetAsBoundaryReset ==
    [][/\ async_reset
          => /\ <<state', cumulative_energy_kwh', last_energy_reading'>>
                = <<Num(0), 0, last_energy_reading>>
             /\ published' = Snapshot(Num(0), 0, last_energy_reading, unit_of_measurement)
             /\ timers' = timers
       /\ \A t \in BagToSet(timers) :
            reset_meter(t)
            => <<state', cumulative_energy_kwh', last_energy_reading'>>
               = <<Num(0), 0, last_energy_reading>>]_vars

\* A manual reset came after the boundary's first firing (the interval is
\* no longer counted from that firing); the other timer of the boundary is
\* still due and the next one still pending.
ManualResetAsBoundaryResetWitness ==
    /\ phase = "added"
    /\ g.resetsAt = 1 /\ ~g.active
    /\ state = Num(0) /\ cumulative_energy_kwh = 0
    /\ last_energy_reading # None
    /\ published = Snapshot(Num(0), 0, last_energy_reading, unit_of_measurement)
    /\ BagIn(0, timers) /\ BagIn(1, timers)

\* C14: missed boundary absorbed.  An instance that starts from a snapshot,
\* however many boundaries passed while it was offline, takes the cost and
\* the energy total of the snapshot and resets nothing: until a boundary
\* passes after its start no _reset_meter fires, and the two totals change
\* only by an update (or a manual reset); the first reset comes with the
\* first boundary after the start.
MissedBoundaryAbsorbed ==
    [][/\ \A u \in PriceUnits :
            (async_added_to_hass(u) /\ Hydrates(stored))
            => /\ state' = stored.state
               /\ cumulative_energy_kwh' = stored.cumulative_energy_kwh
               /\ g'.early
               /\ \A t \in BagToSet(timers') : t >= 1
       /\ g.early
          => /\ \A t \in BagToSet(timers) : ~reset_meter(t)
             /\ (state' # state \/ cumulative_energy_kwh' # cumulative_energy_kwh)
                => \/ \E e \in EnergyFeedStates : UpdateStep(e)
                   \/ async_reset
                   \/ \E u \in PriceUnits : async_added_to_hass(u)
                   \/ Restart]_vars

\* A restored instance (only the restore sets _attr_unit_of_measurement)
\* holds totals from before its start, and no boundary has passed since.
MissedBoundaryAbsorbedWitness ==
    /\ phase = "added" /\ g.early
    /\ attr_unit_of_measurement # UNIT_NONE
    /\ state = Num(-2)
    /\ cumulative_energy_kwh = 2
    /\ \A t \in BagToSet(timers) : t = 1

\* C15, as claimed: the configuration flow creates an entry if and only if
\* exactly one of power_sensor and energy_sensor is provided, together with
\* a valid price sensor id; with both or neither no entry is created and the
\* form is shown again with an error.
EntryIffExactlyOneSensor ==
    [][\A input \in UserInputs :
        async_step_user(input)
        => /\ flow'.step = "entry"
              <=> /\ Provided(input.power_sensor) # Provided(input.energy_sensor)
                  /\ ValidEntityId(input.electricity_price_sensor)
           /\ Provided(input.power_sensor) = Provided(input.energy_sensor)
              => flow'.step = "form" /\ flow'.errors # {}]_vars

\* C15, amended: an entry is created if and only if exactly one of the two
\* is provided, the one provided is a valid entity id and the price sensor
\* id is valid; with both or neither, and the price sensor key present, no
\* entry is created and the form is shown again with an error; in every
\* other case no entry is created either.
EntryIffExactlyOneValidSensor ==
    [][\A input \in UserInputs :
        async_step_user(input)
        => /\ flow'.step = "entry"
              <=> /\ Provided(input.power_sensor) # Provided(input.energy_sensor)
                  /\ Provided(input.power_sensor) => ValidEntityId(input.power_sensor)
                  /\ Provided(input.energy_sensor) => ValidEntityId(input.energy_sensor)
                  /\ ValidEntityId(input.electricity_price_sensor)
           /\ (/\ Provided(input.power_sensor) = Provided(input.energy_sensor)
               /\ input.electricity_price_sensor # ABSENT)
              => flow'.step = "form" /\ flow'.errors # {}
           /\ flow'.step = "entry" => flow'.data = input]_vars

\* An entry was created for an energy sensor submitted with an empty
\* power_sensor field; the entry holds the fields as given.
EntryIffExactlyOneValidSensorWitness ==
    /\ flow.step = "entry"
    /\ flow.data.energy_sensor = "sensor.one"
    /\ flow.data.power_sensor = ""
    /\ flow.data.electricity_price_sensor = "sensor.two"
    /\ user_input = flow.data

\* C16: first observation.  An update that runs with both feeds available
\* and no last reading (None) records the reading as the last reading and
\* leaves the cost (the unset None of a fresh instance included) and the
\* energy total as they were.
FirstObservation ==
    [][\A e \in EnergyFeedStates :
        (/\ Processed(e, price_feed)
         /\ last_energy_reading = None
         /\ UpdateStep(e))
        => /\ state' = state
           /\ cumulative_energy_kwh' = cumulative_energy_kwh
           /\ last_energy_reading' = Num(e.v)]_vars

\* A fresh instance has seen its first reading, MaxEnergy, at price 1: the
\* cost is still unset.
FirstObservationWitness ==
    /\ g.pure /\ g.n = 1
    /\ g.firstE = MaxEnergy /\ g.firstP = 1
    /\ state = None
    /\ cumulative_energy_kwh = 0
    /\ last_energy_reading = Num(MaxEnergy)

\* C17: startup from a snapshot that has a numeric state but no
\* last_energy_reading (one published after a reset that came before any
\* reading) completes: the cost and the energy total are taken from the
\* snapshot, the last reading is absent, the energy feed is subscribed and
\* a boundary reset armed.
RestoreWithoutLastReading ==
    [][\A u \in PriceUnits :
        (async_added_to_hass(u) /\ Hydrates(stored) /\ stored.last_energy_reading = None)
        => /\ state' = stored.state
           /\ cumulative_energy_kwh' = stored.cumulative_energy_kwh
           /\ last_energy_reading' = None
           /\ phase' = "added"
           /\ timers' = schedule_next_reset(timers)]_vars

\* Time a is later than time b.
Later(a, b) ==
    \/ a.year > b.year
    \/ a.year = b.year /\ a.month > b.month
    \/ a.year = b.year /\ a.month = b.month /\ a.day > b.day
    \/ a.year = b.year /\ a.month = b.month /\ a.day = b.day /\ a.tod > b.tod

\* Time t is a boundary of the interval: a midnight; of the first of a
\* month; of the first of January.
IsBoundary(interval, t) ==
    /\ t.tod = 0
    /\ interval = "monthly" => t.day = 1
    /\ interval = "yearly" => t.day = 1 /\ t.month = 1

\* Every date from the first year to the year after the last, at midnight.
Midnights ==
    {t \in [year : 2023..(2023 + MaxYearSpan + 1), month : 1..12, day : 1..31, tod : {0}] :
        t.day <= DaysInMonth(t.year, t.month)}

\* C18: boundary computation.  For every current time T and each of the
\* three intervals the time _calculate_next_reset_time returns is later
\* than T, is a boundary of the interval, and no boundary of the interval
\* lies between T and it: the next midnight (also from a T that is a
\* midnight), the first of the next month (from months of 28, 29, 30 and 31
\* days, and from December), the first of January of the next year (also
\* from February 29).
NextResetIsEarliestBoundary ==
    cal.outcome = "armed"
    => /\ Later(cal.next_reset, cal.now)
       /\ IsBoundary(cal.interval, cal.next_reset)
       /\ \A b \in Midnights :
            (IsBoundary(cal.interval, b) /\ Later(b, cal.now)) => ~Later(cal.next_reset, b)

\* A monthly instance constructed in the evening of 29 February 2024 has its
\* timer armed for 1 March 2024.
NextResetIsEarliestBoundaryWitness ==
    /\ cal.outcome = "armed" /\ cal.interval = "monthly"
    /\ cal.now = [year |-> 2024, month |-> 2, day |-> 29, tod |-> MaxTimeOfDay]
    /\ cal.next_reset = [year |-> 2024, month |-> 3, day |-> 1, tod |-> 0]

\* C20: unrecognized interval.  Constructing a BaseEnergyCostSensor with an
\* interval that is none of daily, monthly and yearly fails with an error in
\* the constructor: there is never an instance of such an interval with a
\* reset armed, and no other interval is put in its place.
UnrecognizedIntervalFails ==
    /\ [](cal.interval \notin {"", "daily", "monthly", "yearly"}
          => cal.outcome = "raised" /\ cal.next_reset = NoTime)
    /\ [][\A interval \in Intervals \ {"daily", "monthly", "yearly"} :
            BaseEnergyCostSensor(interval)
            => /\ cal'.outcome = "raised"
               /\ cal'.interval = interval
               /\ UNCHANGED <<phase, timers, published>>]_vars

\* The construction of a weekly sensor has raised on the last day of 2024.
UnrecognizedIntervalFailsWitness ==
    /\ cal.outcome = "raised" /\ cal.interval = "weekly"
    /\ cal.next_reset = NoTime
    /\ cal.now = [year |-> 2024, month |-> 12, day |-> 31, tod |-> 0]

\* C19: malformed reading.  An update that finds both feeds available and
\* one of them not a number leaves the cost, the energy total and the last
\* reading as they were, publishes nothing and leaves the instance running;
\* the well-formed update that comes next is processed from the last
\* reading as it stood: an accrual of E - L, a rollback, or a first
\* observation.
MalformedReading ==
    [][\A e \in EnergyFeedStates :
        /\ (/\ ~Unavailable(e) /\ ~Unavailable(price_feed)
            /\ ~Parses(e) \/ ~Parses(price_feed)
            /\ UpdateStep(e))
           => /\ UNCHANGED <<state, cumulative_energy_kwh, last_energy_reading, published>>
              /\ phase' \in {"updated", "added", "removed"}
        /\ (g.malformed /\ Processed(e, price_feed) /\ UpdateStep(e))
           => /\ last_energy_reading' = Num(e.v)
              /\ IF last_energy_reading # None /\ e.v >= last_energy_reading.v
                 THEN /\ cumulative_energy_kwh' = cumulative_energy_kwh + (e.v - last_energy_reading.v)
                      /\ state' = Num(Cost(state) + (e.v - last_energy_reading.v) * price_feed.v)
                 ELSE UNCHANGED <<state, cumulative_energy_kwh>>]_vars

\* The update that ran last found the price feed holding text; the totals
\* and the last reading of before stand.
MalformedReadingWitness ==
    /\ phase = "added" /\ g.malformed
    /\ price_feed = TEXT_STATE
    /\ state = Num(-2)
    /\ cumulative_energy_kwh = 2
    /\ last_energy_reading = Num(MaxEnergy)
    /\ published = Snapshot(state, cumulative_energy_kwh, last_energy_reading, unit_of_measurement)

\* C21: energy is not lost across skipped updates.  An update skipped
\* because the energy feed or the price feed is missing, unknown or
\* unavailable leaves the last reading where it was; the update processed
\* next, with a reading E not below that last reading L, adds the whole gap
\* E - L to the energy total and (E - L) * P to the cost, P being the price
\* read by that later update; and on an instance that started without a
\* snapshot, was never reset and never saw a reading go down, the energy
\* total is the last processed reading minus the first processed one,
\* however many updates were skipped in between.
SkippedEnergyNotLost ==
    /\ [](g.pure /\ g.n >= 1 /\ ~g.rolled
           => /\ last_energy_reading = g.prev
              /\ cumulative_energy_kwh = g.prev.v - g.first)
    /\ [][\A e \in EnergyFeedStates :
            /\ ((Unavailable(e) \/ Unavailable(price_feed)) /\ UpdateStep(e))
               => last_energy_reading' = last_energy_reading
            /\ (/\ g.skipped
                /\ Processed(e, price_feed)
                /\ last_energy_reading # None
                /\ e.v >= last_energy_reading.v
                /\ UpdateStep(e))
               => /\ cumulative_energy_kwh' = cumulative_energy_kwh + (e.v - last_energy_reading.v)
                  /\ Cost(state') = Cost(state) + (e.v - last_energy_reading.v) * price_feed.v
                  /\ last_energy_reading' = Num(e.v)]_vars

\* The update processed last came straight after a skipped one and accrued
\* at the negative price; the readings went from 0 to MaxEnergy and the
\* energy total is all of that.
SkippedEnergyNotLostWitness ==
    /\ g.pure /\ g.bridged /\ ~g.rolled /\ g.first = 0
    /\ price_feed = Num(-1)
    /\ state = Num(-MaxEnergy)
    /\ cumulative_energy_kwh = MaxEnergy
    /\ last_energy_reading = Num(MaxEnergy)

\* C22: a change of the price feed alone triggers no accrual.  A step that
\* changes the price leaves the cost, the energy total, the last reading
\* and the published state as they were, however many such steps follow
\* one another; and the update processed next adds to the cost its whole
\* energy increment (E - L against the last reading L, nothing on a
\* rollback or a first observation) times the one price the feed holds at
\* that update, whatever prices the feed held in between.
PriceChangeAlone ==
    [][/\ price_feed' # price_feed
          => UNCHANGED <<state, cumulative_energy_kwh, last_energy_reading, published>>
       /\ \A e \in EnergyFeedStates :
            (Processed(e, price_feed) /\ UpdateStep(e))
            => /\ cumulative_energy_kwh' - cumulative_energy_kwh
                    = IF last_energy_reading # None /\ e.v >= last_energy_reading.v
                      THEN e.v - last_energy_reading.v ELSE 0
               /\ Cost(state') - Cost(state)
                    = (cumulative_energy_kwh' - cumulative_energy_kwh) * price_feed.v]_vars

\* Readings from 0 up to 2 with no rollback, costing -1 in all: two
\* increments of 1, one charged at the price -1 and one at the price 0 (a
\* single increment of 2 costs an even amount), so the price changed
\* between two updates and each increment was charged at the price of its
\* own update; and the price has changed since, to MaxPrice, with the
\* totals standing.
PriceChangeAloneWitness ==
    /\ g.pure /\ ~g.rolled /\ g.first = 0
    /\ price_feed = Num(MaxPrice)
    /\ state = Num(-1)
    /\ cumulative_energy_kwh = 2
    /\ last_energy_reading = Num(2)

====
